---- MODULE Spec2Model ----
(***************************************************************************)
(* Item-based KNN movie recommender (app/recommendation3.py) with its      *)
(* PostgreSQL rating feed (app/database.py) and the /retrain and           *)
(* /recommend endpoints (main.py).                                         *)
(*                                                                         *)
(* Ratings and estimates are in milli-stars (0.5 star = 500); similarities *)
(* are fixed-point with SimScale = 1.0.  The module globals algo, data,    *)
(* movie_info, rating_matrix and movie_genres_cache, the file              *)
(* recommender.pkl and the tables of the database are the state; request   *)
(* handlers run in worker threads and interleave at the statements that    *)
(* read or write the globals.                                              *)
(***************************************************************************)
EXTENDS Integers, Sequences, FiniteSets, TLC

\* ---------------------------------------------------------------- bounds
MaxRetrains == 2      \* POST /retrain requests per process run
MaxWrites == 1        \* rating writes to the database
MaxRestarts == 1      \* process restarts
MaxCalls == 1         \* get_recommendations calls of a serving process
MaxTopN == 2          \* largest top_n argument tried
MaxRequests == 2      \* requests a serving process takes in all

\* ------------------------------------------------------ program constants
K == 10               \* KNNBasic(k=10)
MinK == 3             \* KNNBasic(min_k=3)
RatingLo == 500       \* Reader(rating_scale=(0.5, 5.0))
RatingHi == 5000
Floor == 3000         \* pred.est >= 3.0
LikedMin == 3500      \* rated_movies >= 3.5
SimMin == 10          \* sim > 0.1, in units of 1/SimScale
TopSimilar == 3       \* heapq.nlargest(3, movie_sims, ...)

SimScale == 10 * 10   \* fixed-point unit of a similarity (1.0)
HalfStar == RatingLo  \* ratings are multiples of half a star

Threads == {"main", "w1", "w2"}
Workers == {"w1", "w2"}

\* ------------------------------------------------------------- utilities
RECURSIVE SumSet(_, _)
SumSet(f, S) ==
    IF S = {} THEN 0
    ELSE LET x == CHOOSE x \in S : TRUE IN f[x] + SumSet(f, S \ {x})

\* the elements of a set of integers in ascending order
RECURSIVE SortedSeq(_)
SortedSeq(S) ==
    IF S = {} THEN <<>>
    ELSE LET x == CHOOSE x \in S : \A y \in S : x <= y
         IN <<x>> \o SortedSeq(S \ {x})

ISqrt(n) == CHOOSE s \in 0..SimScale : s * s <= n /\ n < (s + 1) * (s + 1)

Min(a, b) == IF a < b THEN a ELSE b

RemoveAt(s, i) == SubSeq(s, 1, i - 1) \o SubSeq(s, i + 1, Len(s))

\* nlargest with equal keys taken in reverse input order
nlargest_unstable(n, s) ==
    LET RECURSIVE Pick(_, _)
        Pick(m, t) ==
            IF m <= 0 \/ t = <<>> THEN <<>>
            ELSE LET i == CHOOSE i \in 1..Len(t) :
                              \A j \in 1..Len(t) :
                                  t[j][2] < t[i][2] \/ (t[j][2] = t[i][2] /\ j <= i)
                 IN <<t[i]>> \o Pick(m - 1, RemoveAt(t, i))
    IN Pick(n, s)

\* heapq.nlargest(n, s, key=lambda x: x[1]) on a sequence of pairs: the n
\* elements of the largest keys in descending key order, equal keys in input
\* order; the empty list when n <= 0.
nlargest(n, s) ==
    LET RECURSIVE Pick(_, _)
        Pick(m, t) ==
            IF m <= 0 \/ t = <<>> THEN <<>>
            ELSE LET i == CHOOSE i \in 1..Len(t) :
                              \A j \in 1..Len(t) :
                                  t[j][2] < t[i][2] \/ (t[j][2] = t[i][2] /\ j >= i)
                 IN <<t[i]>> \o Pick(m - 1, RemoveAt(t, i))
    IN Pick(n, s)

\* ------------------------------------------------------------ the database
\* fetch_data_from_db: one row per rating whose movie exists and has at least
\* one genre link; genres is STRING_AGG(g.name, '|'), here the sequence of the
\* genre names in genre-id order.
GenreString(db, m) ==
    LET ids == {g \in DOMAIN db.Genre : <<m, g>> \in db.Movie_Genre}
        ord == SortedSeq(ids)
    IN [i \in 1..Len(ord) |-> db.Genre[ord[i]]]

fetch_data_from_db(db) ==
    {[userId |-> p[1], movieId |-> p[2], rating |-> db.Rating[p],
      title |-> db.Movie[p[2]], genres |-> GenreString(db, p[2])] :
        p \in {q \in DOMAIN db.Rating :
                 /\ q[2] \in DOMAIN db.Movie
                 /\ \E g \in DOMAIN db.Genre : <<q[2], g>> \in db.Movie_Genre}}

\* ------------------------------------------------------------- load_data
\* str.split("|") followed by set(...)
SplitGenres(str) == {str[i] : i \in DOMAIN str}

MovieInfoOf(df) ==
    [m \in {r.movieId : r \in df} |->
        LET r == CHOOSE r \in df : r.movieId = m
        IN [title |-> r.title, genres |-> r.genres]]

\* pivot_table: the cells of the rated pairs; index and columns are the users
\* and movies that have a row, absent cells are NaN
RatingMatrixOf(df) ==
    [p \in {<<r.userId, r.movieId>> : r \in df} |->
        (CHOOSE r \in df : r.userId = p[1] /\ r.movieId = p[2]).rating]

Index(rm) == {p[1] : p \in DOMAIN rm}
Columns(rm) == {p[2] : p \in DOMAIN rm}

\* the loop of load_data over movie_info_local: entries are added or
\* overwritten, none is removed
\* load_data without the loop of lines 45-48: the genre cache is left as it is
CacheNotFilled(cache, info) == cache

CacheAfterLoad(cache, info) ==
    [m \in DOMAIN cache \cup DOMAIN info |->
        IF m \in DOMAIN info THEN SplitGenres(info[m].genres) ELSE cache[m]]

\* ------------------------------------- surprise: trainset, similarities, predict
EmptyFn == [p \in {} |-> 0]

\* Dataset.load_from_df(data[["userId","movieId","rating"]], reader)
\*   .build_full_trainset(): the ratings by (user, item) and their mean
build_full_trainset(df) ==
    LET r == RatingMatrixOf(df)
    IN [ratings |-> r,
        global_mean |-> IF DOMAIN r = {} THEN 0
                        ELSE SumSet(r, DOMAIN r) \div Cardinality(DOMAIN r)]

KnowsUser(ts, u) == \E p \in DOMAIN ts.ratings : p[1] = u
KnowsItem(ts, i) == \E p \in DOMAIN ts.ratings : p[2] = i
ItemsOf(ts) == {p[2] : p \in DOMAIN ts.ratings}
RatedBy(ts, u) == {p[2] : p \in {q \in DOMAIN ts.ratings : q[1] = u}}

\* similarities.pearson over the items (user_based = False): the Pearson
\* correlation of the two items' ratings by their common raters; 0 when there
\* is no common rater (min_support 1) or a variance is 0; sim[i, i] = 1
Pearson(ts, i, j) ==
    IF i = j THEN SimScale
    ELSE
    LET co == {u \in {p[1] : p \in DOMAIN ts.ratings} :
                 <<u, i>> \in DOMAIN ts.ratings /\ <<u, j>> \in DOMAIN ts.ratings}
        n == Cardinality(co)
        ri == [u \in co |-> ts.ratings[<<u, i>>] \div HalfStar]
        rj == [u \in co |-> ts.ratings[<<u, j>>] \div HalfStar]
        prods == SumSet([u \in co |-> ri[u] * rj[u]], co)
        si == SumSet(ri, co)
        sj == SumSet(rj, co)
        sqi == SumSet([u \in co |-> ri[u] * ri[u]], co)
        sqj == SumSet([u \in co |-> rj[u] * rj[u]], co)
        num == n * prods - si * sj
        den2 == (n * sqi - si * si) * (n * sqj - sj * sj)
        ratio == (num * num * SimScale) \div den2         \* (num/denum)^2
        mag == ISqrt(ratio * SimScale)
    IN IF n < 1 \/ den2 = 0 THEN 0
       ELSE IF num < 0 THEN 0 - mag ELSE mag

compute_similarities(ts) ==
    [p \in ItemsOf(ts) \X ItemsOf(ts) |-> Pearson(ts, p[1], p[2])]

\* The KNNBasic object bound to the global algo.  is_none: algo is None;
\* has_trainset / has_sim: the attributes fit() has set so far.
NoAlgo ==
    [is_none |-> TRUE, has_trainset |-> FALSE,
     trainset |-> [ratings |-> EmptyFn, global_mean |-> 0],
     has_sim |-> FALSE, sim |-> EmptyFn]

\* KNNBasic(k=10, min_k=3, sim_options=..., verbose=False): not yet fitted
NewKNNBasic == [NoAlgo EXCEPT !.is_none = FALSE]

Fitted(a) == ~a.is_none /\ a.has_trainset /\ a.has_sim

\* the whole of algo.fit(trainset), for an object nobody else touches
FitOf(ts) ==
    [is_none |-> FALSE, has_trainset |-> TRUE, trainset |-> ts,
     has_sim |-> TRUE, sim |-> compute_similarities(ts)]

\* KNNBasic.estimate(u, i), item-based: the neighbours are the items the user
\* rated, the k most similar are kept, those with sim > 0 are averaged.
\* kind: "est", "impossible" (PredictionImpossible) or "raise" (any other
\* exception: an attribute fit() has not set yet, an index outside sim)
Neighbors(a, u, i) ==
    LET items == SortedSeq(RatedBy(a.trainset, u))
    IN [n \in 1..Len(items) |->
           <<a.trainset.ratings[<<u, items[n]>>], a.sim[<<i, items[n]>>]>>]

\* estimate without the min_k test: any neighbour of positive similarity gives
\* an estimate
estimate_no_min_k(a, u, i) ==
    IF ~(KnowsUser(a.trainset, u) /\ KnowsItem(a.trainset, i))
    THEN [kind |-> "impossible", est |-> 0]
    ELSE IF ~a.has_sim
            \/ \E j \in RatedBy(a.trainset, u) : <<i, j>> \notin DOMAIN a.sim
    THEN [kind |-> "raise", est |-> 0]
    ELSE
    LET k_neighbors == nlargest(K, Neighbors(a, u, i))
        pos == {n \in 1..Len(k_neighbors) : k_neighbors[n][2] > 0}
        sum_sim == SumSet([n \in pos |-> k_neighbors[n][2]], pos)
        sum_ratings ==
            SumSet([n \in pos |-> k_neighbors[n][2] * k_neighbors[n][1]], pos)
    IN IF pos = {} THEN [kind |-> "impossible", est |-> 0]
       ELSE [kind |-> "est", est |-> sum_ratings \div sum_sim]

estimate(a, u, i) ==
    IF ~(KnowsUser(a.trainset, u) /\ KnowsItem(a.trainset, i))
    THEN [kind |-> "impossible", est |-> 0]
    ELSE IF ~a.has_sim
            \/ \E j \in RatedBy(a.trainset, u) : <<i, j>> \notin DOMAIN a.sim
    THEN [kind |-> "raise", est |-> 0]
    ELSE
    LET k_neighbors == nlargest(K, Neighbors(a, u, i))
        pos == {n \in 1..Len(k_neighbors) : k_neighbors[n][2] > 0}
        sum_sim == SumSet([n \in pos |-> k_neighbors[n][2]], pos)
        sum_ratings ==
            SumSet([n \in pos |-> k_neighbors[n][2] * k_neighbors[n][1]], pos)
        actual_k == Cardinality(pos)
    IN IF actual_k < MinK THEN [kind |-> "impossible", est |-> 0]
       ELSE [kind |-> "est", est |-> sum_ratings \div sum_sim]

Clip(x) == IF x < RatingLo THEN RatingLo ELSE IF x > RatingHi THEN RatingHi ELSE x

\* AlgoBase.predict(uid, iid): PredictionImpossible gives the default
\* prediction trainset.global_mean; the estimate is clipped to the rating
\* scale.  raised: an exception other than PredictionImpossible leaves predict
predict(a, u, i) ==
    IF a.is_none \/ ~a.has_trainset THEN [raised |-> TRUE, est |-> 0]
    ELSE LET e == estimate(a, u, i)
         IN IF e.kind = "raise" THEN [raised |-> TRUE, est |-> 0]
            ELSE [raised |-> FALSE,
                  est |-> Clip(IF e.kind = "impossible"
                               THEN a.trainset.global_mean ELSE e.est)]

\* ------------------------------------------------------------ the artifact
\* pickle.dump(algo, f): the object's attribute dictionary as it is at the
\* time of the dump
PickleDump(a) ==
    [attrs |-> {n \in {"trainset", "sim"} :
                   (n = "trainset" /\ a.has_trainset) \/ (n = "sim" /\ a.has_sim)},
     trainset |-> a.trainset, sim |-> a.sim]

\* pickle.load(f): a KNNBasic object with the attributes the file holds
PickleLoad(b) ==
    [is_none |-> FALSE,
     has_trainset |-> "trainset" \in b.attrs, trainset |-> b.trainset,
     has_sim |-> "sim" \in b.attrs, sim |-> b.sim]

\* ----------------------------------------------------- get_recommendations
\* lines 177-182: the user's row of the rating matrix
RatedMovies(rm, u) == [m \in {q[2] : q \in {p \in DOMAIN rm : p[1] = u}} |-> rm[<<u, m>>]]
\* the candidates without the isna() filter of line 179
AllColumnsAsCandidates(rm, u) == SortedSeq(Columns(rm))

MoviesNoValoradas(rm, u) == SortedSeq(Columns(rm) \ DOMAIN RatedMovies(rm, u))
LikedMovieIds(rm, u) ==
    SortedSeq({m \in DOMAIN RatedMovies(rm, u) : rm[<<u, m>>] >= LikedMin})

\* lines 186-191: one turn of the prediction loop
KeepNoFloor(a, u, m, predictions) ==
    LET pred == predict(a, u, m)
    IN IF ~pred.raised THEN Append(predictions, <<m, pred.est>>) ELSE predictions

PredictOne(a, u, m, predictions) ==
    LET pred == predict(a, u, m)
    IN IF ~pred.raised /\ pred.est >= Floor
       THEN Append(predictions, <<m, pred.est>>)
       ELSE predictions

\* round(pred_rating, 2), in hundredths of a star
Round2(x) == (x + 5) \div 10

Desconocido == <<"Desconocido", 0>>
UnaPeliculaSimilar == <<"una pelicula similar", 0>>
NoText == [kind |-> "generic", wording |-> "", similar |-> <<>>, genres |-> {}]

\* line 202: algo.trainset.to_inner_iid(movie_id) returns (it raises for an
\* unknown item, and algo.trainset raises before fit has set it)
InnerId(a, m) == ~a.is_none /\ a.has_trainset /\ KnowsItem(a.trainset, m)

\* lines 206-213: one turn of the loop over liked_movie_ids for movie m; an
\* exception leaves movie_sims as it is
SimilarityOne(a, m, l, movie_sims) ==
    IF InnerId(a, l) /\ a.has_sim /\ <<m, l>> \in DOMAIN a.sim
       /\ a.sim[<<m, l>>] > SimMin
    THEN Append(movie_sims, <<l, a.sim[<<m, l>>]>>)
    ELSE movie_sims

RECURSIVE SimilarityAll(_, _, _, _)
SimilarityAll(a, m, liked, movie_sims) ==
    IF liked = <<>> THEN movie_sims
    ELSE SimilarityAll(a, m, Tail(liked), SimilarityOne(a, m, Head(liked), movie_sims))

\* lines 215-254: the explanation of movie m from its movie_sims, and the
\* genre cache after it.  rated, liked: the call's rated_movies and
\* liked_movie_ids
ExplainFrom(mi, cache, rated, liked, m, movie_sims) ==
    LET similar_movies == nlargest(TopSimilar, movie_sims)
        sim_texts == [n \in 1..Len(similar_movies) |->
                        LET id == similar_movies[n][1]
                        IN <<IF id \in DOMAIN mi THEN mi[id].title
                             ELSE UnaPeliculaSimilar,
                             rated[id]>>]
        cached == IF m \in DOMAIN cache THEN cache[m] ELSE {}
        refill == cached = {} /\ m \in DOMAIN mi
        movie_genres == IF refill THEN SplitGenres(mi[m].genres) ELSE cached
        cache2 == IF refill
                  THEN [x \in DOMAIN cache \cup {m} |->
                           IF x = m THEN movie_genres ELSE cache[x]]
                  ELSE cache
        user_genres == UNION {cache2[l] : l \in {liked[n] : n \in DOMAIN liked}
                                                   \cap DOMAIN cache2}
        matching_genres == movie_genres \cap user_genres
    IN IF similar_movies # <<>>
       THEN [explanation |->
                 [kind |-> "similar",
                  wording |-> IF Len(similar_movies) = 1 THEN "porque te gusto"
                              ELSE "porque te gustaron ... como ... y",
                  similar |-> sim_texts, genres |-> {}],
             cache |-> cache]
       ELSE IF matching_genres # {}
       THEN [explanation |-> [kind |-> "genres", wording |-> "", similar |-> <<>>,
                              genres |-> matching_genres],
             cache |-> cache2]
       ELSE [explanation |-> NoText, cache |-> cache2]

\* lines 199-257 on one model: the explanation of one recommended movie
Explain(a, mi, cache, rated, liked, m) ==
    IF ~InnerId(a, m)
    THEN [explanation |-> NoText, cache |-> cache]
    ELSE ExplainFrom(mi, cache, rated, liked, m, SimilarityAll(a, m, liked, <<>>))

\* lines 259-267: the item appended to recommendations
Recommendation(mi, m, pred_rating, explanation) ==
    LET info == IF m \in DOMAIN mi THEN mi[m]
                ELSE [title |-> Desconocido, genres |-> <<>>]
    IN [movieId |-> m, title |-> info.title, genres |-> info.genres,
        predicted_rating |-> Round2(pred_rating), explanation |-> explanation]

\* get_recommendations run alone on one state of the globals: what it raises
\* or returns, and the genre cache it leaves
RECURSIVE PredictAll(_, _, _, _)
PredictAll(a, u, cands, predictions) ==
    IF cands = <<>> THEN predictions
    ELSE PredictAll(a, u, Tail(cands), PredictOne(a, u, Head(cands), predictions))

RECURSIVE ExplainAll(_, _, _, _, _, _, _)
ExplainAll(a, mi, cache, rated, liked, top, recs) ==
    IF top = <<>> THEN [recs |-> recs, cache |-> cache]
    ELSE LET e == Explain(a, mi, cache, rated, liked, Head(top)[1])
         IN ExplainAll(a, mi, e.cache, rated, liked, Tail(top),
                       Append(recs, Recommendation(mi, Head(top)[1], Head(top)[2],
                                                   e.explanation)))

GetRecommendations(a, rm, mi, cache, u, top_n) ==
    IF u \notin Index(rm)
    THEN [raised |-> TRUE, recs |-> <<>>, cache |-> cache]
    ELSE LET predictions == PredictAll(a, u, MoviesNoValoradas(rm, u), <<>>)
             top == nlargest(top_n, predictions)
             out == ExplainAll(a, mi, cache, RatedMovies(rm, u),
                               LikedMovieIds(rm, u), top, <<>>)
         IN [raised |-> FALSE, recs |-> out.recs, cache |-> out.cache]

\* ------------------------------------------------------ the initial tables
Title(m) == <<"title", m>>

InitialRating ==
    LET cell == [p \in (1..8) \X (1..5) |->
                   CASE p[1] = 1 /\ p[2] \in {1, 2} -> 3000
                     [] p[1] = 1 /\ p[2] = 3 -> 3500
                     [] p[1] = 2 /\ p[2] \in 1..4 -> 5000
                     [] p[1] = 2 /\ p[2] = 5 -> 4000
                     [] p[1] = 3 /\ p[2] \in 1..4 -> 2000
                     [] p[1] = 4 /\ p[2] = 1 -> 4500
                     [] p[1] = 5 /\ p[2] \in 1..3 -> 2500
                     [] p[1] = 7 /\ p[2] = 1 -> 4000
                     [] p[1] = 7 /\ p[2] = 2 -> 4500
                     [] p[1] = 7 /\ p[2] = 3 -> 3500
                     [] p[1] = 7 /\ p[2] = 5 -> 5000
                     [] p[1] = 8 /\ p[2] = 1 -> 4000
                     [] p[1] = 8 /\ p[2] = 4 -> 3500
                     [] p[1] = 8 /\ p[2] = 5 -> 3000
                     [] OTHER -> 0]
    IN [p \in {q \in DOMAIN cell : cell[q] > 0} |-> cell[p]]

InitialDb ==
    [User |-> 1..8,
     Movie |-> [m \in 1..6 |-> Title(m)],
     Genre |-> <<"Action", "Drama">>,
     Movie_Genre |-> {<<1, 1>>, <<2, 1>>, <<3, 2>>, <<4, 1>>, <<4, 2>>, <<5, 2>>},
     Rating |-> InitialRating]

\* rating writes tried on the running system (POST /ratings/, DELETE /ratings/)
CreateInputs == {<<1, 1, 1000>>, <<1, 1, 5000>>, <<1, 4, 5000>>}
DeleteInputs == {<<4, 1>>}
CallUsers == {1, 4, 5, 6, 7, 8}

\* ------------------------------------------------------------------- state
VARIABLES
    db,                  \* the tables User, Movie, Genre, Movie_Genre, Rating
    pkl,                 \* the file recommender.pkl
    algo, data, movie_info, rating_matrix, movie_genres_cache,
                         \* the module globals of recommendation3.py
    proc,                \* where the process is: the import of the module
                         \* (lines 271, 272), serving requests, or exited
    rt,                  \* per thread, its execution of retrain_model
    call,                \* the execution of get_recommendations
    load_path,           \* the branch load_model took in this process
    n,                   \* what the model still allows: retrains, rating
                         \* writes, restarts, calls, and requests in all
    resp                 \* the last request of the HTTP API (or run of the
                         \* bulk loader) and its response

vars == <<db, pkl, algo, data, movie_info, rating_matrix, movie_genres_cache,
          proc, rt, call, load_path, n, resp>>
globals == <<algo, data, movie_info, rating_matrix, movie_genres_cache>>

Live == [algo |-> algo, data |-> data, movie_info |-> movie_info,
         rating_matrix |-> rating_matrix, movie_genres_cache |-> movie_genres_cache]

NoLive == [algo |-> NoAlgo, data |-> {}, movie_info |-> EmptyFn,
           rating_matrix |-> EmptyFn, movie_genres_cache |-> EmptyFn]

\* a thread that is not inside retrain_model.  trainset: the local of line 83;
\* own: the object algo.fit was called on is still the one bound to algo;
\* pre: the globals when the thread entered retrain_model
IdleRetrain == [pc |-> "idle", trainset |-> NoAlgo.trainset, own |-> FALSE,
                pre |-> NoLive]

IdleCall ==
    [pc |-> "idle", user |-> 0, top_n |-> 0, err |-> "",
     rated |-> EmptyFn, cands |-> <<>>, liked |-> <<>>, idx |-> 0,
     predictions |-> <<>>, top |-> <<>>, recs |-> <<>>,
     j |-> 0, movie_sims |-> <<>>, failed |-> {},
     rm_seen |-> {}, ts_seen |-> {}, mi_seen |-> {}, unfit_seen |-> FALSE]

NoFile == [state |-> "absent", bytes |-> PickleDump(NoAlgo), src |-> NoLive]

NoBody == [personalized |-> FALSE, ratingsHistory |-> {}, recommendations |-> <<>>]
NoResp == [seq |-> 0, op |-> "", args |-> <<>>, status |-> 0, body |-> NoBody]

Budget(requests) ==
    [retrains |-> MaxRetrains, writes |-> MaxWrites, restarts |-> MaxRestarts,
     calls |-> MaxCalls, requests |-> requests]

Init ==
    /\ db = InitialDb
    /\ pkl = NoFile
    /\ algo = NoAlgo
    /\ data = {}
    /\ movie_info = EmptyFn
    /\ rating_matrix = EmptyFn
    /\ movie_genres_cache = EmptyFn
    /\ proc = "L271"
    /\ rt = [t \in Threads |-> IdleRetrain]
    /\ call = IdleCall
    /\ load_path = "none"
    /\ n = Budget(MaxRetrains + MaxWrites + MaxCalls)
    /\ resp = NoResp

InRetrain(t) == rt[t].pc \in {"L79", "L81", "L90", "L90sim", "L92", "L93", "L96"}
AfterFetch(t) == rt[t].pc \in {"L81", "L90", "L90sim", "L92", "L93"}

\* ------------------------------------------------------------ the database
\* create_rating: INSERT ... ON CONFLICT (user_id, movie_id) DO UPDATE
create_rating(u, m, v) ==
    /\ n.writes > 0 /\ n.requests > 0
    /\ db' = [db EXCEPT !.Rating =
                 [p \in DOMAIN db.Rating \cup {<<u, m>>} |->
                     IF p = <<u, m>> THEN v ELSE db.Rating[p]]]
    /\ n' = [n EXCEPT !.writes = @ - 1, !.requests = @ - 1]
    /\ UNCHANGED <<pkl, globals, proc, rt, call, load_path, resp>>

\* delete_rating: DELETE FROM Rating WHERE user_id = ... AND movie_id = ...
delete_rating(u, m) ==
    /\ n.writes > 0 /\ n.requests > 0
    /\ db' = [db EXCEPT !.Rating =
                 [p \in DOMAIN db.Rating \ {<<u, m>>} |-> db.Rating[p]]]
    /\ n' = [n EXCEPT !.writes = @ - 1, !.requests = @ - 1]
    /\ UNCHANGED <<pkl, globals, proc, rt, call, load_path, resp>>

\* ------------------------------------------------------------ retrain_model
\* POST /retrain: a worker thread enters retrain_model
RetrainStart(t) ==
    /\ proc = "serving"
    /\ t \in Workers
    /\ rt[t].pc \in {"idle", "failed"}
    /\ t = "w1" \/ rt["w1"].pc # "idle"      \* the pool hands out w1 first
    /\ n.retrains > 0 /\ n.requests > 0
    /\ rt' = [rt EXCEPT ![t] = [IdleRetrain EXCEPT !.pc = "L79", !.pre = Live]]
    /\ n' = [n EXCEPT !.retrains = @ - 1, !.requests = @ - 1]
    /\ UNCHANGED <<db, pkl, globals, proc, call, load_path, resp>>

\* line 79: data, movie_info, rating_matrix = load_data(); load_data has
\* updated movie_genres_cache on the way
RetrainLoadData(t) ==
    /\ rt[t].pc = "L79"
    /\ LET df == fetch_data_from_db(db)
       IN /\ data' = df
          /\ movie_info' = MovieInfoOf(df)
          /\ rating_matrix' = RatingMatrixOf(df)
          /\ movie_genres_cache' = CacheAfterLoad(movie_genres_cache, MovieInfoOf(df))
    /\ rt' = [rt EXCEPT ![t].pc = "L81"]
    /\ UNCHANGED <<db, pkl, algo, proc, call, load_path, n, resp>>

\* the exception of a step of retrain_model leaves the function: the endpoint
\* answers 500, the import of the module fails
Raise(t) ==
    /\ rt' = [rt EXCEPT ![t] = IF t = "main" THEN IdleRetrain
                                ELSE [rt[t] EXCEPT !.pc = "failed"]]
    /\ proc' = IF t = "main" THEN "exited" ELSE proc

\* line 79: fetch_data_from_db raises (the database is unreachable)
RetrainFetchFails(t) ==
    /\ rt[t].pc = "L79"
    /\ Raise(t)
    /\ UNCHANGED <<db, pkl, globals, call, load_path, n, resp>>

\* lines 81-89: the trainset of the global data, then algo = KNNBasic(...);
\* an object another thread is fitting is no longer the one bound to algo
RetrainNewAlgo(t) ==
    /\ rt[t].pc = "L81"
    /\ algo' = NewKNNBasic
    /\ rt' = [x \in Threads |->
                IF x = t
                THEN [rt[t] EXCEPT !.pc = "L90", !.trainset = build_full_trainset(data)]
                ELSE [rt[x] EXCEPT !.own = FALSE]]
    /\ UNCHANGED <<db, pkl, data, movie_info, rating_matrix, movie_genres_cache,
                   proc, call, load_path, n, resp>>

\* line 90, AlgoBase.fit: self.trainset = trainset, self being the object
\* bound to algo when fit is called
RetrainFitTrainset(t) ==
    /\ rt[t].pc = "L90"
    /\ algo' = [algo EXCEPT !.has_trainset = TRUE, !.trainset = rt[t].trainset]
    /\ rt' = [rt EXCEPT ![t].pc = "L90sim", ![t].own = TRUE]
    /\ UNCHANGED <<db, pkl, data, movie_info, rating_matrix, movie_genres_cache,
                   proc, call, load_path, n, resp>>

\* line 90, KNNBasic.fit: self.sim = self.compute_similarities()
RetrainFitSim(t) ==
    /\ rt[t].pc = "L90sim"
    /\ algo' = IF rt[t].own
               THEN [algo EXCEPT !.has_sim = TRUE,
                                 !.sim = compute_similarities(algo.trainset)]
               ELSE algo
    /\ rt' = [rt EXCEPT ![t].pc = "L92"]
    /\ UNCHANGED <<db, pkl, data, movie_info, rating_matrix, movie_genres_cache,
                   proc, call, load_path, n, resp>>

\* line 90: fit raises
RetrainFitFails(t) ==
    /\ rt[t].pc \in {"L90", "L90sim"}
    /\ Raise(t)
    /\ UNCHANGED <<db, pkl, globals, call, load_path, n, resp>>

\* line 92: open("recommender.pkl", "wb") creates or truncates the file
RetrainOpen(t) ==
    /\ rt[t].pc = "L92"
    /\ pkl' = [NoFile EXCEPT !.state = "empty"]
    /\ rt' = [rt EXCEPT ![t].pc = "L93"]
    /\ UNCHANGED <<db, globals, proc, call, load_path, n, resp>>

\* line 92: open raises, the file is as it was
RetrainOpenFails(t) ==
    /\ rt[t].pc = "L92"
    /\ Raise(t)
    /\ UNCHANGED <<db, pkl, globals, call, load_path, n, resp>>

\* line 93: pickle.dump(algo, f) of the object bound to algo now
RetrainDump(t) ==
    /\ rt[t].pc = "L93"
    /\ pkl' = [state |-> "complete", bytes |-> PickleDump(algo), src |-> Live]
    /\ rt' = [rt EXCEPT ![t].pc = "L96"]
    /\ UNCHANGED <<db, globals, proc, call, load_path, n, resp>>

\* line 93: the dump raises part-way (disk full, unpicklable value)
RetrainDumpFails(t) ==
    /\ rt[t].pc = "L93"
    /\ pkl' = [NoFile EXCEPT !.state = "partial"]
    /\ Raise(t)
    /\ UNCHANGED <<db, globals, call, load_path, n, resp>>

\* line 96: return algo.  In load_model (lines 129, 133) the value is assigned
\* to algo again and the import of the module is complete
RetrainReturn(t) ==
    /\ rt[t].pc = "L96"
    /\ rt' = [rt EXCEPT ![t] = IdleRetrain]
    /\ proc' = IF t = "main" THEN "loaded" ELSE proc
    /\ UNCHANGED <<db, pkl, globals, call, load_path, n, resp>>

\* ------------------------------------------------------ import of the module
\* line 271: data, movie_info, rating_matrix = load_data()
MainLoadData ==
    /\ proc = "L271"
    /\ LET df == fetch_data_from_db(db)
       IN /\ data' = df
          /\ movie_info' = MovieInfoOf(df)
          /\ rating_matrix' = RatingMatrixOf(df)
          /\ movie_genres_cache' = CacheAfterLoad(movie_genres_cache, MovieInfoOf(df))
    /\ proc' = "L272"
    /\ UNCHANGED <<db, pkl, algo, rt, call, load_path, n, resp>>

\* line 271: load_data raises and the import fails
MainLoadDataFails ==
    /\ proc = "L271"
    /\ proc' = "exited"
    /\ UNCHANGED <<db, pkl, globals, rt, call, load_path, n, resp>>

\* load_model, line 120: os.path.exists("recommender.pkl")
LoadModelExists ==
    /\ proc = "L272"
    /\ IF pkl.state = "absent"
       THEN /\ proc' = "L133"
            /\ load_path' = "absent"
       ELSE /\ proc' = "L123"
            /\ load_path' = "restored"
    /\ UNCHANGED <<db, pkl, globals, rt, call, n, resp>>

\* load_model, lines 123-125: algo = pickle.load(f)
LoadModelRestore ==
    /\ proc = "L123"
    /\ pkl.state = "complete"
    /\ algo' = PickleLoad(pkl.bytes)
    /\ proc' = "loaded"
    /\ UNCHANGED <<db, pkl, data, movie_info, rating_matrix, movie_genres_cache,
                   rt, call, load_path, n, resp>>

\* load_model, lines 126-129: pickle.load raised; lines 131-133: no file.
\* Both call retrain_model
LoadModelRetrain ==
    /\ \/ proc = "L123" /\ pkl.state \in {"absent", "empty", "partial"}
                        /\ load_path' = "corrupt"
       \/ proc = "L133" /\ load_path' = load_path
    /\ proc' = "training"
    /\ rt' = [rt EXCEPT !["main"] = [IdleRetrain EXCEPT !.pc = "L79", !.pre = Live]]
    /\ UNCHANGED <<db, pkl, globals, call, n, resp>>

\* the module is imported and the server starts to take requests
Serve ==
    /\ proc = "loaded"
    /\ proc' = "serving"
    /\ UNCHANGED <<db, pkl, globals, rt, call, load_path, n, resp>>

\* the process ends at any point (kill, crash, deployment) and a new one
\* starts: the database and the file stay, everything in memory is gone
Restart ==
    /\ n.restarts > 0
    /\ algo' = NoAlgo
    /\ data' = {}
    /\ movie_info' = EmptyFn
    /\ rating_matrix' = EmptyFn
    /\ movie_genres_cache' = EmptyFn
    /\ proc' = "L271"
    /\ rt' = [t \in Threads |-> IdleRetrain]
    /\ call' = IdleCall
    /\ load_path' = "none"
    /\ n' = [Budget(MaxRetrains + n.writes + MaxCalls) EXCEPT
                 !.restarts = n.restarts - 1, !.writes = n.writes]
    /\ UNCHANGED <<db, pkl, resp>>

\* ------------------------------------------------------ get_recommendations
\* what a read of the global algo finds, recorded with the call
SeenAlgo(c) ==
    [c EXCEPT !.ts_seen = IF Fitted(algo) THEN @ \cup {algo.trainset.ratings} ELSE @,
              !.unfit_seen = @ \/ ~Fitted(algo)
                               \/ algo.sim # compute_similarities(algo.trainset)]

\* the call; lines 171-172 do nothing, algo being bound once the module is
\* imported
CallStart(u, top_n) ==
    /\ proc = "serving"
    /\ call.pc \in {"idle", "done", "raised"}
    /\ n.calls > 0 /\ n.requests > 0
    /\ ~algo.is_none
    /\ call' = [IdleCall EXCEPT !.pc = "L174", !.user = u, !.top_n = top_n]
    /\ n' = [n EXCEPT !.calls = @ - 1, !.requests = @ - 1]
    /\ UNCHANGED <<db, pkl, globals, proc, rt, load_path, resp>>

\* get_recommendations without the check of lines 174-175
CallNoUserCheck ==
    /\ call.pc = "L174"
    /\ call' = [call EXCEPT !.pc = "L177", !.rm_seen = @ \cup {rating_matrix}]
    /\ UNCHANGED <<db, pkl, globals, proc, rt, load_path, n, resp>>

\* lines 174-175: if user_id not in rating_matrix.index: raise ValueError
CallCheckUser ==
    /\ call.pc = "L174"
    /\ call' = IF call.user \notin Index(rating_matrix)
               THEN [call EXCEPT !.pc = "raised", !.err = "ValueError",
                                 !.rm_seen = @ \cup {rating_matrix}]
               ELSE [call EXCEPT !.pc = "L177", !.rm_seen = @ \cup {rating_matrix}]
    /\ UNCHANGED <<db, pkl, globals, proc, rt, load_path, n, resp>>

\* lines 177-182: rating_matrix.loc[user_id] (KeyError if the matrix bound to
\* the global now has no such row), rated, unrated and liked movies
CallUserRow ==
    /\ call.pc = "L177"
    /\ call' = IF call.user \notin Index(rating_matrix)
               THEN [call EXCEPT !.pc = "raised", !.err = "KeyError",
                                 !.rm_seen = @ \cup {rating_matrix}]
               ELSE [call EXCEPT !.pc = "L185",
                                 !.rated = RatedMovies(rating_matrix, call.user),
                                 !.cands = MoviesNoValoradas(rating_matrix, call.user),
                                 !.liked = LikedMovieIds(rating_matrix, call.user),
                                 !.idx = 1,
                                 !.rm_seen = @ \cup {rating_matrix}]
    /\ UNCHANGED <<db, pkl, globals, proc, rt, load_path, n, resp>>

\* one turn of the loop over movies_no_valoradas in which the exception of
\* algo.predict leaves get_recommendations (no try around line 187)
CallPredictPropagates ==
    /\ call.pc = "L185"
    /\ call.idx <= Len(call.cands)
    /\ call' = IF predict(algo, call.user, call.cands[call.idx]).raised
               THEN [SeenAlgo(call) EXCEPT !.pc = "raised", !.err = "Exception"]
               ELSE [SeenAlgo(call) EXCEPT
                        !.predictions =
                            PredictOne(algo, call.user, call.cands[call.idx], @),
                        !.idx = @ + 1]
    /\ UNCHANGED <<db, pkl, globals, proc, rt, load_path, n, resp>>

\* lines 185-191: one turn of the loop over movies_no_valoradas.  failed: the
\* candidates whose turn went through the except of lines 190-191
CallPredict ==
    /\ call.pc = "L185"
    /\ call.idx <= Len(call.cands)
    /\ call' = [SeenAlgo(call) EXCEPT
                   !.predictions = PredictOne(algo, call.user, call.cands[call.idx], @),
                   !.failed = IF predict(algo, call.user, call.cands[call.idx]).raised
                              THEN @ \cup {call.cands[call.idx]} ELSE @,
                   !.idx = @ + 1]
    /\ UNCHANGED <<db, pkl, globals, proc, rt, load_path, n, resp>>

\* line 193: top_recommendations = heapq.nlargest(top_n, predictions, ...)
CallTop ==
    /\ call.pc = "L185"
    /\ call.idx > Len(call.cands)
    /\ call' = [call EXCEPT !.pc = "L198", !.idx = 1,
                            !.top = nlargest(call.top_n, call.predictions)]
    /\ UNCHANGED <<db, pkl, globals, proc, rt, load_path, n, resp>>

\* lines 198-202 of one turn of the loop over top_recommendations; when line
\* 202 raises, the except of line 253 leaves the generic sentence (256-267)
CallExplainItem ==
    /\ call.pc = "L198"
    /\ call.idx <= Len(call.top)
    /\ LET m == call.top[call.idx][1]
       IN call' = IF InnerId(algo, m)
                  THEN [SeenAlgo(call) EXCEPT !.pc = "L205", !.j = 1,
                                              !.movie_sims = <<>>]
                  ELSE [SeenAlgo(call) EXCEPT
                           !.recs = Append(@, Recommendation(movie_info, m,
                                                call.top[call.idx][2], NoText)),
                           !.idx = @ + 1,
                           !.mi_seen = @ \cup {movie_info}]
    /\ UNCHANGED <<db, pkl, globals, proc, rt, load_path, n, resp>>

\* lines 205-213: one turn of the loop over liked_movie_ids
CallSimilarity ==
    /\ call.pc = "L205"
    /\ call.j <= Len(call.liked)
    /\ call' = [SeenAlgo(call) EXCEPT
                   !.movie_sims = SimilarityOne(algo, call.top[call.idx][1],
                                                call.liked[call.j], @),
                   !.j = @ + 1]
    /\ UNCHANGED <<db, pkl, globals, proc, rt, load_path, n, resp>>

\* lines 215-267: the explanation and the item of this turn
CallExplain ==
    /\ call.pc = "L205"
    /\ call.j > Len(call.liked)
    /\ LET m == call.top[call.idx][1]
           e == ExplainFrom(movie_info, movie_genres_cache, call.rated, call.liked,
                            m, call.movie_sims)
       IN /\ movie_genres_cache' = e.cache
          /\ call' = [call EXCEPT
                         !.pc = "L198",
                         !.recs = Append(@, Recommendation(movie_info, m,
                                              call.top[call.idx][2], e.explanation)),
                         !.idx = @ + 1,
                         !.mi_seen = @ \cup {movie_info}]
    /\ UNCHANGED <<db, pkl, algo, data, movie_info, rating_matrix, proc, rt,
                   load_path, n, resp>>

\* line 269: return recommendations
CallReturn ==
    /\ call.pc = "L198"
    /\ call.idx > Len(call.top)
    /\ call' = [call EXCEPT !.pc = "done"]
    /\ UNCHANGED <<db, pkl, globals, proc, rt, load_path, n, resp>>

\* ------------------------------------------------------------- the HTTP API
\* Each request runs as one step.  k: the budget of n the request spends.
Request(k) == proc = "serving" /\ n.requests > 0 /\ n[k] > 0
Spend(k) == [n EXCEPT ![k] = @ - 1, !.requests = @ - 1]
Response(op, args, status, body) ==
    [seq |-> resp.seq + 1, op |-> op, args |-> args, status |-> status, body |-> body]

EndpointTopN == 5     \* get_recommendations(user_id, top_n=5)
HeadMovies == 5       \* get_all_movies().head(5)
GeneralRating == 350  \* "predicted_rating": 3.5, in hundredths of a star

\* get_ratings_by_user: the user's ratings of movies that exist
get_ratings_by_user(d, u) ==
    {[user_id |-> u, movie_id |-> p[2], rating |-> d.Rating[p]] :
        p \in {q \in DOMAIN d.Rating : q[1] = u /\ q[2] \in DOMAIN d.Movie}}

\* get_movie_genres_by_id: the names of the genres linked to the movie
get_movie_genres_by_id(d, m) ==
    {d.Genre[g] : g \in {h \in DOMAIN d.Genre : <<m, h>> \in d.Movie_Genre}}

\* src/main.py lines 139-155: the general recommendations for the movies S
NonPersonalizedRecs(d, S) ==
    LET ms == SortedSeq(S)
    IN [i \in 1..Len(ms) |->
           [movieId |-> ms[i], title |-> d.Movie[ms[i]],
            genres |-> get_movie_genres_by_id(d, ms[i]),
            predicted_rating |-> GeneralRating, non_personalized |-> TRUE,
            explanation |-> "recomendacion general no personalizada"]]

\* src/main.py lines 164-167: the items of get_recommendations, marked
PersonalizedRecs(recs) ==
    [i \in 1..Len(recs) |->
        [movieId |-> recs[i].movieId, title |-> recs[i].title,
         genres |-> recs[i].genres, predicted_rating |-> recs[i].predicted_rating,
         non_personalized |-> FALSE, explanation |-> recs[i].explanation]]

\* GET /recommend/{user_id} without the branch of lines 138-162
recommend_always_personalized(u) ==
    /\ Request("calls")
    /\ \E r \in {GetRecommendations(algo, rating_matrix, movie_info,
                                    movie_genres_cache, u, EndpointTopN)} :
       LET history == get_ratings_by_user(db, u)
       IN IF u \notin db.User
          THEN /\ resp' = Response("recommend", <<u>>, 404, NoBody)
               /\ UNCHANGED movie_genres_cache
          ELSE /\ movie_genres_cache' = r.cache
               /\ resp' = IF r.raised
                          THEN Response("recommend", <<u>>, 404, NoBody)
                          ELSE Response("recommend", <<u>>, 200,
                                        [personalized |-> TRUE,
                                         ratingsHistory |-> history,
                                         recommendations |-> PersonalizedRecs(r.recs)])
    /\ n' = Spend("calls")
    /\ UNCHANGED <<db, pkl, algo, data, movie_info, rating_matrix, proc, rt, call,
                   load_path>>

\* GET /recommend/{user_id}.  SELECT * FROM Movie has no ORDER BY: head(5) is
\* any 5 of the movies.
recommend(u) ==
    /\ Request("calls")
    /\ \E r \in {GetRecommendations(algo, rating_matrix, movie_info,
                                    movie_genres_cache, u, EndpointTopN)} :
       LET history == get_ratings_by_user(db, u)
       IN IF u \notin db.User
          THEN /\ resp' = Response("recommend", <<u>>, 404, NoBody)
               /\ UNCHANGED movie_genres_cache
          ELSE IF history = {}
          THEN /\ \E S \in SUBSET DOMAIN db.Movie :
                     /\ Cardinality(S) = Min(HeadMovies, Cardinality(DOMAIN db.Movie))
                     /\ resp' = Response("recommend", <<u>>, 200,
                                    [personalized |-> FALSE, ratingsHistory |-> {},
                                     recommendations |-> NonPersonalizedRecs(db, S)])
               /\ UNCHANGED movie_genres_cache
          ELSE /\ movie_genres_cache' = r.cache
               /\ resp' = IF r.raised
                          THEN Response("recommend", <<u>>, 404, NoBody)
                          ELSE Response("recommend", <<u>>, 200,
                                        [personalized |-> TRUE,
                                         ratingsHistory |-> history,
                                         recommendations |-> PersonalizedRecs(r.recs)])
    /\ n' = Spend("calls")
    /\ UNCHANGED <<db, pkl, algo, data, movie_info, rating_matrix, proc, rt, call,
                   load_path>>

\* POST /users/: create_user, INSERT ... ON CONFLICT (id) DO NOTHING
add_user(u) ==
    /\ Request("writes")
    /\ db' = [db EXCEPT !.User = @ \cup {u}]
    /\ resp' = Response("add_user", <<u>>, 200, NoBody)
    /\ n' = Spend("writes")
    /\ UNCHANGED <<pkl, globals, proc, rt, call, load_path>>

\* the Rating table with the pair's value set
WithRating(d, u, m, v) ==
    [d EXCEPT !.Rating = [p \in DOMAIN d.Rating \cup {<<u, m>>} |->
                             IF p = <<u, m>> THEN v ELSE d.Rating[p]]]

\* POST /ratings/ that also puts the value into the live rating matrix
add_rating_into_matrix(u, m, v) ==
    /\ Request("writes")
    /\ db' = WithRating(db, u, m, v)
    /\ rating_matrix' = [p \in DOMAIN rating_matrix \cup {<<u, m>>} |->
                            IF p = <<u, m>> THEN v ELSE rating_matrix[p]]
    /\ resp' = Response("add_rating", <<u, m, v>>, 200, NoBody)
    /\ n' = Spend("writes")
    /\ UNCHANGED <<pkl, algo, data, movie_info, movie_genres_cache, proc, rt, call,
                   load_path>>

\* POST /ratings/: create_rating, INSERT ... ON CONFLICT (user_id, movie_id)
\* DO UPDATE SET value = EXCLUDED.value
add_rating(u, m, v) ==
    /\ Request("writes")
    /\ db' = WithRating(db, u, m, v)
    /\ resp' = Response("add_rating", <<u, m, v>>, 200, NoBody)
    /\ n' = Spend("writes")
    /\ UNCHANGED <<pkl, globals, proc, rt, call, load_path>>

\* PUT /ratings/: update_rating, UPDATE Rating SET value = ... WHERE ...
modify_rating(u, m, v) ==
    /\ Request("writes")
    /\ db' = IF <<u, m>> \in DOMAIN db.Rating THEN WithRating(db, u, m, v) ELSE db
    /\ resp' = Response("modify_rating", <<u, m, v>>, 200, NoBody)
    /\ n' = Spend("writes")
    /\ UNCHANGED <<pkl, globals, proc, rt, call, load_path>>

\* DELETE /ratings/: delete_rating
remove_rating(u, m) ==
    /\ Request("writes")
    /\ db' = [db EXCEPT !.Rating =
                 [p \in DOMAIN db.Rating \ {<<u, m>>} |-> db.Rating[p]]]
    /\ resp' = Response("remove_rating", <<u, m>>, 200, NoBody)
    /\ n' = Spend("writes")
    /\ UNCHANGED <<pkl, globals, proc, rt, call, load_path>>

\* upload_data.py lines 63-67, one row of the CSV: INSERT INTO Rating ... ON
\* CONFLICT (user_id, movie_id) DO NOTHING
upload_rating(u, m, v) ==
    /\ Request("writes")
    /\ db' = IF <<u, m>> \in DOMAIN db.Rating THEN db ELSE WithRating(db, u, m, v)
    /\ resp' = Response("upload_rating", <<u, m, v>>, 0, NoBody)
    /\ n' = Spend("writes")
    /\ UNCHANGED <<pkl, globals, proc, rt, call, load_path>>

\* SELECT id FROM Genre WHERE name = :genre_name
GenreIds(d, g) == {h \in DOMAIN d.Genre : d.Genre[h] = g}

\* POST /movie-genres/: link_movie_to_genre.  ValueError (404) when the genre
\* is not found; the movie is not looked up: for a movie that does not exist
\* the INSERT either adds the row or, if Movie_Genre.movie_id is declared a
\* foreign key, fails (500).
add_movie_genre(m, g) ==
    /\ Request("writes")
    /\ IF GenreIds(db, g) = {}
       THEN /\ resp' = Response("add_movie_genre", <<m, g>>, 404, NoBody)
            /\ UNCHANGED db
       ELSE LET h == CHOOSE h \in GenreIds(db, g) : TRUE
            IN \/ /\ db' = [db EXCEPT !.Movie_Genre = @ \cup {<<m, h>>}]
                  /\ resp' = Response("add_movie_genre", <<m, g>>, 200, NoBody)
               \/ /\ m \notin DOMAIN db.Movie
                  /\ resp' = Response("add_movie_genre", <<m, g>>, 500, NoBody)
                  /\ UNCHANGED db
    /\ n' = Spend("writes")
    /\ UNCHANGED <<pkl, globals, proc, rt, call, load_path>>

\* DELETE /movie-genres/: unlink_movie_from_genre.  ValueError (404) when the
\* genre is not found; the DELETE of a row that is not there succeeds.
remove_movie_genre(m, g) ==
    /\ Request("writes")
    /\ IF GenreIds(db, g) = {}
       THEN /\ resp' = Response("remove_movie_genre", <<m, g>>, 404, NoBody)
            /\ UNCHANGED db
       ELSE LET h == CHOOSE h \in GenreIds(db, g) : TRUE
            IN /\ db' = [db EXCEPT !.Movie_Genre = @ \ {<<m, h>>}]
               /\ resp' = Response("remove_movie_genre", <<m, g>>, 200, NoBody)
    /\ n' = Spend("writes")
    /\ UNCHANGED <<pkl, globals, proc, rt, call, load_path>>

\* the requests tried
ApiUsers == {1, 6, 9}
ApiRatings == {<<1, 1, 5000>>, <<1, 4, 2000>>, <<6, 1, 4000>>, <<6, 4, 2000>>}
ApiMovies == {1, 6, 9}
ApiGenres == {"Action", "Drama", "Horror"}

\* --------------------------------------------------------------------- Next
Write ==
    \/ \E i \in CreateInputs : create_rating(i[1], i[2], i[3])
    \/ \E i \in DeleteInputs : delete_rating(i[1], i[2])

Retrain(t) ==
    \/ RetrainStart(t)
    \/ RetrainLoadData(t)
    \/ RetrainFetchFails(t)
    \/ RetrainNewAlgo(t)
    \/ RetrainFitTrainset(t)
    \/ RetrainFitSim(t)
    \/ RetrainFitFails(t)
    \/ RetrainOpen(t)
    \/ RetrainOpenFails(t)
    \/ RetrainDump(t)
    \/ RetrainDumpFails(t)
    \/ RetrainReturn(t)

Call ==
    \/ \E u \in CallUsers, top_n \in (0 - 1)..MaxTopN : CallStart(u, top_n)
    \/ CallCheckUser
    \/ CallUserRow
    \/ CallPredict
    \/ CallTop
    \/ CallExplainItem
    \/ CallSimilarity
    \/ CallExplain
    \/ CallReturn

\* The life of the model: the import of the module, retrains, rating writes
\* and restarts of the process.
Next ==
    \/ Write
    \/ \E t \in Threads : Retrain(t)
    \/ MainLoadData
    \/ MainLoadDataFails
    \/ LoadModelExists
    \/ LoadModelRestore
    \/ LoadModelRetrain
    \/ Serve
    \/ Restart

Spec == Init /\ [][Next]_vars

\* A serving process: the module was imported on the initial tables with no
\* recommender.pkl; get_recommendations runs next to rating writes and to the
\* retrains of one worker, MaxRequests requests in all.
InitServe ==
    LET df == fetch_data_from_db(InitialDb)
        a == FitOf(build_full_trainset(df))
    IN /\ db = InitialDb
       /\ algo = a
       /\ data = df
       /\ movie_info = MovieInfoOf(df)
       /\ rating_matrix = RatingMatrixOf(df)
       /\ movie_genres_cache = CacheAfterLoad(EmptyFn, MovieInfoOf(df))
       /\ pkl = [state |-> "complete", bytes |-> PickleDump(a),
                 src |-> [algo |-> a, data |-> df, movie_info |-> MovieInfoOf(df),
                          rating_matrix |-> RatingMatrixOf(df),
                          movie_genres_cache |-> CacheAfterLoad(EmptyFn, MovieInfoOf(df))]]
       /\ proc = "serving"
       /\ rt = [t \in Threads |-> IdleRetrain]
       /\ call = IdleCall
       /\ load_path = "absent"
       /\ n = Budget(MaxRequests)
       /\ resp = NoResp

NextServe ==
    \/ Write
    \/ Retrain("w1")
    \/ Call

SpecServe == InitServe /\ [][NextServe]_vars

\* The HTTP API of a serving process: the CRUD requests, the bulk loader's
\* rating insert, /recommend and the retrains of one worker.
NextApi ==
    \/ \E u \in ApiUsers : recommend(u)
    \/ \E u \in ApiUsers : add_user(u)
    \/ \E r \in ApiRatings : add_rating(r[1], r[2], r[3])
    \/ \E r \in ApiRatings : modify_rating(r[1], r[2], r[3])
    \/ \E r \in ApiRatings : remove_rating(r[1], r[2])
    \/ \E r \in ApiRatings : upload_rating(r[1], r[2], r[3])
    \/ \E m \in ApiMovies, g \in ApiGenres : add_movie_genre(m, g)
    \/ \E m \in ApiMovies, g \in ApiGenres : remove_movie_genre(m, g)
    \/ Retrain("w1")

SpecApi == InitServe /\ [][NextApi]_vars
\* ================================================================== claims
Quiescent == \A t \in Threads : ~InRetrain(t)

\* C1: a retrain that fails at any step leaves algo, data, movie_info,
\* rating_matrix and the genre cache exactly as they were when it started
\* (stated for a retrain that ran alone in its process).
C1_FailedRetrainKeepsLiveState ==
    \A t \in Workers :
        (rt[t].pc = "failed" /\ n.retrains = MaxRetrains - 1) => Live = rt[t].pre

\* C2: every read of the shared model made by one get_recommendations call
\* sees one complete version: one rating matrix, the trainset built from that
\* matrix's snapshot with its own similarities, one movie_info of the same
\* movies, and never a model that is not fully trained.
C2_CallReadsOneVersion ==
    call.pc = "done" =>
        /\ ~call.unfit_seen
        /\ Cardinality(call.rm_seen \cup call.ts_seen) <= 1
        /\ Cardinality(call.mi_seen) <= 1
        /\ \A mi \in call.mi_seen, rm \in call.rm_seen : DOMAIN mi = Columns(rm)

\* C3: at most one execution of retrain_model is between its feed fetch and
\* the end of its write of recommender.pkl.
C3_RetrainsSerialized ==
    Cardinality({t \in Threads : AfterFetch(t)}) <= 1

\* C4: whenever the process serves and no retrain is in progress (and none has
\* failed), the rating matrix, the movie metadata and the similarity model are
\* of the same rating-feed snapshot; also after a start that restored the
\* model from recommender.pkl.
C4_OneSnapshotWhenQuiescent ==
    (proc = "serving" /\ Quiescent /\ \A t \in Threads : rt[t].pc # "failed") =>
        /\ Fitted(algo)
        /\ algo.trainset.ratings = rating_matrix
        /\ algo.sim = compute_similarities(algo.trainset)
        /\ DOMAIN movie_info = Columns(rating_matrix)

\* The stage of the lifecycle the process is in.
Lifecycle ==
    IF \E t \in Threads : InRetrain(t) THEN "Training"
    ELSE IF proc = "L123" THEN "Loading"
    ELSE IF proc \in {"L271", "L272", "L133"} THEN "Uninitialized"
    ELSE IF proc \in {"loaded", "serving"} /\ Fitted(algo) THEN "Ready"
    ELSE "NotReady"

LifecycleSteps ==
    {<<"Uninitialized", "Loading">>, <<"Loading", "Ready">>,
     <<"Uninitialized", "Training">>, <<"Loading", "Training">>,
     <<"Training", "Ready">>, <<"Ready", "Training">>}

\* C5: within one process the lifecycle takes only the steps Uninitialized ->
\* Loading -> Ready, Uninitialized (or a failed Loading) -> Training -> Ready
\* and Ready -> Training -> Ready, and once the serving process has a fully
\* trained live model, every later state has one.
C5_LifecycleNeverLeavesReady ==
    [][(n.restarts' = n.restarts /\ proc' # "exited") =>
          /\ Lifecycle' = Lifecycle \/ <<Lifecycle, Lifecycle'>> \in LifecycleSteps
          /\ (proc = "serving" /\ Fitted(algo)) => Fitted(algo')]_vars

\* C6: when load_model has returned normally the live model is trained, and if
\* recommender.pkl was absent or unreadable the file now holds that model.
C6_SelfHealingColdStart ==
    proc = "loaded" =>
        /\ Fitted(algo)
        /\ load_path \in {"absent", "corrupt"} =>
              pkl.state = "complete" /\ PickleLoad(pkl.bytes) = algo

\* C7: at every moment recommender.pkl is absent or the complete serialized
\* model of one training run, never empty or truncated.
C7_ArtifactAllOrNothing ==
    /\ pkl.state \in {"absent", "complete"}
    /\ pkl.state = "complete" => Fitted(PickleLoad(pkl.bytes))

AllUserIds == 1..8
AllMovieIds == 1..5

\* the predictions of a model for every (user, movie) pair
Predictions(a) == [p \in AllUserIds \X AllMovieIds |-> predict(a, p[1], p[2])]

\* the results of get_recommendations on a state of the globals
Results(live) ==
    [p \in AllUserIds \X ((0 - 1)..MaxTopN) |->
        LET r == GetRecommendations(live.algo, live.rating_matrix, live.movie_info,
                                    live.movie_genres_cache, p[1], p[2])
        IN <<r.raised, r.recs>>]

\* C8: a model restored by load_model gives, for every (user, movie), the
\* predictions of the model that retrain_model persisted, and the same
\* get_recommendations results as the process that persisted it.
C8_RoundTrip ==
    (proc = "loaded" /\ load_path = "restored") =>
        /\ Predictions(algo) = Predictions(pkl.src.algo)
        /\ Results(Live) = Results(pkl.src)

\* C9: a call that returns gives no item when top_n <= 0 and otherwise at most
\* top_n items, each with 3.0 <= predicted_rating <= 5.0; a call raises only
\* for a user that a rating matrix it read does not know.
C9_AtMostTopNAboveFloor ==
    /\ call.pc = "done" =>
          /\ call.top_n <= 0 => call.recs = <<>>
          /\ call.top_n > 0 => Len(call.recs) <= call.top_n
          /\ \A i \in DOMAIN call.recs :
                call.recs[i].predicted_rating >= Round2(Floor)
                /\ call.recs[i].predicted_rating <= Round2(RatingHi)
    /\ call.pc = "raised" =>
          \E rm \in call.rm_seen : call.user \notin Index(rm)

\* a call with top_n > 0 returned top_n items, having cut the candidates that
\* passed the floor and dropped one that did not
C9_Witness ==
    /\ call.pc = "done"
    /\ call.top_n > 0
    /\ Len(call.recs) = call.top_n
    /\ Len(call.predictions) > call.top_n
    /\ Len(call.cands) > Len(call.predictions)

\* the position of movie m in the sequence of <<movie, estimate>> pairs s
Pos(s, m) == CHOOSE i \in DOMAIN s : s[i][1] = m

\* C10: the selected recommendations are the top_n highest estimates among
\* the candidates that passed the floor, in descending estimate; among equal
\* estimates the earlier candidate of the matrix's column order is selected
\* first and listed first, and the returned list follows that order.
C10_TopNStableDescending ==
    call.pc \in {"L198", "L205", "done"} =>
        LET preds == call.predictions
            top == call.top
            Before(x, y) == x[2] > y[2]
                            \/ (x[2] = y[2] /\ Pos(preds, x[1]) < Pos(preds, y[1]))
        IN /\ \A i, j \in DOMAIN preds : i < j => preds[i][1] < preds[j][1]
           /\ \A i \in DOMAIN preds : preds[i][2] >= Floor
           /\ Len(top) = Min(IF call.top_n > 0 THEN call.top_n ELSE 0, Len(preds))
           /\ \A i \in DOMAIN top : \E k \in DOMAIN preds : preds[k] = top[i]
           /\ \A i, j \in DOMAIN top : i < j => Before(top[i], top[j])
           /\ \A k \in DOMAIN preds :
                 (\A i \in DOMAIN top : top[i] # preds[k]) =>
                     \A i \in DOMAIN top : Before(top[i], preds[k])
           /\ call.pc = "done" =>
                 /\ Len(call.recs) = Len(top)
                 /\ \A i \in DOMAIN top : call.recs[i].movieId = top[i][1]

C10_Witness ==
    /\ call.pc = "done"
    /\ Len(call.top) >= 2
    /\ call.top[1][2] = call.top[2][2]
    /\ \E k \in DOMAIN call.predictions :
          /\ \A i \in DOMAIN call.top : call.top[i] # call.predictions[k]
          /\ call.predictions[k][2] = call.top[Len(call.top)][2]

\* the set of the elements of a sequence
Range(s) == {s[i] : i \in DOMAIN s}

\* C11: the candidates of a call are exactly the movies (columns) of the
\* rating matrix it read that its user has no rating for in that matrix; every
\* returned movieId is one of them, so it is a movie of that matrix and not a
\* movie the user has rated.
C11_CandidatesAreTheUnratedMovies ==
    call.pc \in {"L185", "L198", "L205", "done"} =>
        \E rm \in call.rm_seen :
            /\ call.user \in Index(rm)
            /\ Range(call.cands) = {m \in Columns(rm) : <<call.user, m>> \notin DOMAIN rm}
            /\ DOMAIN call.rated = {m \in Columns(rm) : <<call.user, m>> \in DOMAIN rm}
            /\ \A i \in DOMAIN call.recs :
                  /\ call.recs[i].movieId \in Range(call.cands)
                  /\ call.recs[i].movieId \in Columns(rm)
                  /\ call.recs[i].movieId \notin DOMAIN call.rated

\* the liked movies whose similarity to movie m in the model a is above 0.1
Qualifying(a, liked, m) ==
    IF Fitted(a)
    THEN {l \in Range(liked) : <<m, l>> \in DOMAIN a.sim /\ a.sim[<<m, l>>] > SimMin}
    ELSE {}

GenresOf(mi, m) == IF m \in DOMAIN mi THEN SplitGenres(mi[m].genres) ELSE {}

\* the tier of the explanation the priority rule gives movie m
ExpectedKind(a, mi, liked, m) ==
    IF Qualifying(a, liked, m) # {} THEN "similar"
    ELSE IF GenresOf(mi, m) \cap UNION {GenresOf(mi, l) : l \in Range(liked)} # {}
    THEN "genres"
    ELSE "generic"

\* C15: every selected movie is returned with exactly one explanation, of the
\* first tier that applies to it: similar liked movies, else shared genres,
\* else the generic sentence; nothing in the explanation loop drops an item or
\* makes the call raise.
C15_ExplanationByPriority ==
    /\ [][(call.pc \in {"L198", "L205"} /\ Len(call'.recs) = Len(call.recs) + 1) =>
             LET r == call'.recs[Len(call'.recs)]
                 e == r.explanation
             IN /\ r.movieId = call.top[call.idx][1]
                /\ e.kind = ExpectedKind(algo, movie_info, call.liked, r.movieId)
                /\ (e.kind = "similar") = (e.similar # <<>>)
                /\ (e.kind = "genres") = (e.genres # {})
                /\ e.similar = <<>> \/ e.genres = {}]_vars
    /\ [](call.pc = "done" => Len(call.recs) = Len(call.top))
    /\ [](call.pc = "raised" => call.top = <<>> /\ call.recs = <<>>)

\* C20: a neighbour-similarity explanation names exactly the (at most 3) liked
\* movies (own rating >= 3.5) most similar to the recommended movie among
\* those with similarity above 0.1 in the live model, in descending
\* similarity, each with the user's own rating; the single-movie wording is
\* used exactly when one movie is named.
C20_SimilarExplanationNamesTheMostSimilar ==
    [][(call.pc = "L205" /\ Len(call'.recs) = Len(call.recs) + 1
        /\ call'.recs[Len(call'.recs)].explanation.kind = "similar") =>
          LET e == call'.recs[Len(call'.recs)].explanation
              m == call.top[call.idx][1]
              Q == Qualifying(algo, call.liked, m)
              S(l) == algo.sim[<<m, l>>]
              len == Len(e.similar)
          IN /\ len = Min(TopSimilar, Cardinality(Q))
             /\ (e.wording = "porque te gusto") = (len = 1)
             /\ \E ids \in [1..len -> Q] :
                   /\ \A x, y \in 1..len : x < y =>
                          ids[x] # ids[y] /\ S(ids[x]) >= S(ids[y])
                   /\ \A x \in 1..len :
                          /\ ids[x] \in DOMAIN movie_info
                          /\ e.similar[x] = <<movie_info[ids[x]].title,
                                              call.rated[ids[x]]>>
                          /\ call.rated[ids[x]] >= LikedMin
                          /\ S(ids[x]) > SimMin
                   /\ \A q \in Q : (\A x \in 1..len : ids[x] # q) =>
                          \A x \in 1..len : S(q) <= S(ids[x])]_vars

\* the movies the user rated in the trained model a whose similarity to movie
\* m is positive: the neighbours that count for the estimate
QualifyingNeighbours(a, u, m) ==
    {j \in AllMovieIds : /\ <<u, j>> \in DOMAIN a.trainset.ratings
                          /\ <<m, j>> \in DOMAIN a.sim
                          /\ a.sim[<<m, j>>] > 0}

\* C18: when the trained live model has fewer than min_k = 3 qualifying
\* neighbours for a candidate, the candidate's prediction is the global mean
\* of the model (within the rating scale) and no exception: the candidate is
\* kept with that estimate when it reaches the 3.0 floor and dropped when not.
C18_FallbackBelowMinK ==
    [][(call.pc = "L185" /\ call'.idx = call.idx + 1 /\ Fitted(algo)
        /\ Cardinality(QualifyingNeighbours(algo, call.user, call.cands[call.idx])) < MinK) =>
          LET fallback == Clip(algo.trainset.global_mean)
          IN call'.predictions =
                 IF fallback >= Floor
                 THEN Append(call.predictions, <<call.cands[call.idx], fallback>>)
                 ELSE call.predictions]_vars

\* a candidate with one or two qualifying neighbours has just been kept
C18_Witness ==
    /\ call.pc = "L185" /\ call.idx > 1 /\ Fitted(algo)
    /\ LET m == call.cands[call.idx - 1]
           nb == QualifyingNeighbours(algo, call.user, m)
       IN /\ nb # {} /\ Cardinality(nb) < MinK
          /\ call.predictions # <<>>
          /\ call.predictions[Len(call.predictions)]
                 = <<m, Clip(algo.trainset.global_mean)>>

\* C16: no step of a get_recommendations call, returning or raising, changes
\* algo, data, movie_info, rating_matrix or the genre cache (so calls do not
\* affect one another).
C16_CallsAreReadOnly ==
    [][(call' # call) => Live' = Live]_vars

\* a call returned an item explained by its genres, having read the genre
\* cache at lines 234-245
C16_Witness ==
    /\ call.pc = "done"
    /\ \E i \in DOMAIN call.recs : call.recs[i].explanation.kind = "genres"

\* the users that have a rating in the rating matrix rm
UsersWithRatings(rm) == {p[1] : p \in DOMAIN rm}

C11_Witness ==
    /\ call.pc = "done"
    /\ call.recs # <<>>
    /\ \E m \in DOMAIN call.rated : predict(algo, call.user, m).est >= Floor

\* ------------------------------------------------------- claims of the HTTP API
\* the step answers a request of the endpoint op
Answers(op) == resp'.seq # resp.seq /\ resp'.op = op

RatedNothing(d, u) == ~\E p \in DOMAIN d.Rating : p[1] = u

AllNonPersonalized(recs) == \A i \in 1..Len(recs) : recs[i].non_personalized

\* C12: GET /recommend/{user_id} for a user who has rated nothing never fails
\* when the user is in the user table: it answers 200 with personalized =
\* false, at most 5 items, each marked non_personalized, and an empty ratings
\* history; for such a request 404 is answered only when the user is absent.
C12_NoRatingsGetsGeneralList ==
    [][(Answers("recommend") /\ RatedNothing(db, resp'.args[1])) =>
          IF resp'.args[1] \in db.User
          THEN /\ resp'.status = 200
               /\ resp'.body.personalized = FALSE
               /\ resp'.body.ratingsHistory = {}
               /\ Len(resp'.body.recommendations) <= HeadMovies
               /\ AllNonPersonalized(resp'.body.recommendations)
          ELSE resp'.status = 404]_vars

\* a user of the user table without ratings was answered the general list
C12_Witness ==
    /\ resp.op = "recommend"
    /\ resp.args[1] \in db.User
    /\ RatedNothing(db, resp.args[1])
    /\ resp.status = 200
    /\ ~resp.body.personalized
    /\ Len(resp.body.recommendations) = HeadMovies
    /\ AllNonPersonalized(resp.body.recommendations)

\* C14: whatever writes and retrains came before, GET /recommend/{user_id}
\* answers 404 or 500 only when the user is not in the store or the model is
\* not loaded, and answers 200 for every user of the store.
C14_HardFailureOnlyForAbsentUser ==
    [][Answers("recommend") =>
          /\ resp'.status \in {404, 500} =>
                 (resp'.args[1] \notin db.User \/ algo.is_none)
          /\ (resp'.args[1] \in db.User /\ ~algo.is_none) => resp'.status = 200]_vars

\* C17: the store holds one value per (user_id, movie_id) (Rating is a
\* function of the pair), and a write leaves the pair with the value written:
\* create_rating always, update_rating and the bulk loader's insert for a pair
\* already rated, and delete_rating leaves the pair without a rating.
C17_LastWriteWins ==
    [][/\ Answers("add_rating") =>
              db'.Rating[<<resp'.args[1], resp'.args[2]>>] = resp'.args[3]
       /\ ((Answers("modify_rating") \/ Answers("upload_rating"))
              /\ <<resp'.args[1], resp'.args[2]>> \in DOMAIN db.Rating) =>
              db'.Rating[<<resp'.args[1], resp'.args[2]>>] = resp'.args[3]
       /\ Answers("remove_rating") =>
              <<resp'.args[1], resp'.args[2]>> \notin DOMAIN db'.Rating]_vars

\* the (movie, genre name) relation is in the store
Linked(d, m, g) == \E h \in GenreIds(d, g) : <<m, h>> \in d.Movie_Genre

\* C19: POST /movie-genres/ answers 404 and changes nothing when the movie or
\* the genre does not exist, DELETE /movie-genres/ answers 404 and changes
\* nothing when the relation does not exist, and a 200 means the link is there
\* after a POST and was there and is gone after a DELETE.
C19_MovieGenre404WhenMissing ==
    [][/\ Answers("add_movie_genre") =>
              /\ (resp'.args[1] \notin DOMAIN db.Movie \/ GenreIds(db, resp'.args[2]) = {})
                     => (resp'.status = 404 /\ db' = db)
              /\ resp'.status = 200 => Linked(db', resp'.args[1], resp'.args[2])
       /\ Answers("remove_movie_genre") =>
              /\ ~Linked(db, resp'.args[1], resp'.args[2])
                     => (resp'.status = 404 /\ db' = db)
              /\ resp'.status = 200 =>
                     /\ Linked(db, resp'.args[1], resp'.args[2])
                     /\ ~Linked(db', resp'.args[1], resp'.args[2])]_vars

\* ------------------------------------------------- claims of the genre cache
\* a thread returns from retrain_model (line 96) in this step
RetrainSucceeds == \E t \in Threads : rt[t].pc = "L96" /\ rt'[t].pc = "idle"

\* a thread runs load_data in this step (line 79, or line 271 at import)
LoadDataRuns == proc = "L271" \/ \E t \in Threads : rt[t].pc = "L79"

\* C21: when retrain_model returns, movie_genres_cache is exactly the genre
\* sets split from the movie_info of the dataset just loaded (no entry of a
\* movie that is not in it), and only load_data changes the cache.
C21_GenreCachePerVersion ==
    [][/\ RetrainSucceeds =>
              movie_genres_cache' = CacheAfterLoad(EmptyFn, movie_info')
       /\ movie_genres_cache' # movie_genres_cache => LoadDataRuns]_vars

\* ------------------------------------------- claims of the prediction loop
\* C22: when algo.predict raises for a candidate, the candidate is left out of
\* the predictions and the loop goes on with the next one; the call does not
\* raise because of it: the candidates are all gone through, the top is taken
\* of the predictions that were made, and the call returns one item per entry
\* of the top.
C22_FailedPredictionIsDropped ==
    /\ [][(/\ call.pc = "L185" /\ call.idx <= Len(call.cands)
           /\ call' # call
           /\ predict(algo, call.user, call.cands[call.idx]).raised)
          => /\ call'.pc = "L185" /\ call'.err = ""
             /\ call'.idx = call.idx + 1
             /\ call'.predictions = call.predictions]_vars
    /\ [](call.failed # {} => call.pc # "raised")
    /\ [](call.pc \in {"L198", "L205", "done"} =>
             /\ call.idx > 0
             /\ call.top = nlargest(call.top_n, call.predictions)
             /\ \A m \in call.failed :
                    \A i \in 1..Len(call.predictions) : call.predictions[i][1] # m)
    /\ [](call.pc = "done" => Len(call.recs) = Len(call.top))

\* a call returned recommendations although a candidate's prediction raised
C22_Witness ==
    /\ call.pc = "done"
    /\ call.failed # {}
    /\ call.recs # <<>>
    /\ Cardinality(call.failed) + Len(call.predictions) <= Len(call.cands)

\* ---------------------------------------------- claims of the frame of writes
\* the requests that write to the store
WriteOps == {"add_user", "add_rating", "modify_rating", "remove_rating",
             "upload_rating", "add_movie_genre", "remove_movie_genre"}

\* get_recommendations(u, top_n) on the globals g
RecommendationsOf(g, u, top_n) ==
    GetRecommendations(g.algo, g.rating_matrix, g.movie_info,
                       g.movie_genres_cache, u, top_n)

\* a thread is inside retrain_model
Retraining == \E t \in Threads : rt[t].pc \notin {"idle", "failed"}

\* C23: algo, rating_matrix and movie_info change only in a step of
\* retrain_model; a write to the store leaves them as they are, so
\* get_recommendations(u, n) gives the same result after it as before it, and
\* the rated set of the user in the matrix is the one of the last retrain.
C23_WritesLeaveTheModel ==
    /\ [][(algo' # algo \/ rating_matrix' # rating_matrix \/ movie_info' # movie_info)
             => Retraining]_vars
    /\ [][(resp'.seq # resp.seq /\ resp'.op \in WriteOps) =>
             /\ algo' = algo /\ rating_matrix' = rating_matrix
             /\ movie_info' = movie_info
             /\ \A u \in ApiUsers :
                    /\ RecommendationsOf(Live', u, EndpointTopN)
                           = RecommendationsOf(Live, u, EndpointTopN)
                    /\ RatedMovies(rating_matrix', u) = RatedMovies(rating_matrix, u)]_vars

\* user 1 rated movie 4 after the last retrain and is still recommended it
C23_Witness ==
    /\ resp.op = "recommend" /\ resp.status = 200
    /\ resp.body.personalized
    /\ \E i \in 1..Len(resp.body.recommendations) :
           LET m == resp.body.recommendations[i].movieId
           IN /\ <<resp.args[1], m>> \in DOMAIN db.Rating
              /\ <<resp.args[1], m>> \notin DOMAIN rating_matrix
====
